---- MODULE Spec2Model ----
(***************************************************************************)
(* EduGraph: the home page (Home.fetchVideos) that combines the processed  *)
(* videos into one graph, the hierarchical graph (overview / detailed      *)
(* view, zoom transform, force simulations) that renders it, and the       *)
(* playback clock of the video pages that recomputes the isActive flags.   *)
(*                                                                         *)
(* Node ids of the combined graph are the pair <<videoIndex, id>>, which   *)
(* stands for the string `video_${videoIndex}_${id}`.  Scales are exact    *)
(* rationals <<numerator, denominator>> in lowest terms.                   *)
(***************************************************************************)
EXTENDS Integers, Sequences, FiniteSets, TLC

VARIABLES
    processedVideos,   \* what GET /api/videos answers (data.processedVideos)
    currentView,       \* App: 'home' | 'upload'
    loading,           \* Home.loading
    error,             \* Home.error is set
    combinedNodes,     \* Home.combinedNodes  (props.nodes of the graph)
    combinedEdges,     \* Home.combinedEdges  (props.edges of the graph)
    selectedNode,      \* Home.selectedNode (the id of the node object, NoId = null)
    viewMode,          \* HierarchicalGraph.viewMode
    zoomLevel,         \* HierarchicalGraph.zoomLevel (React state)
    zoomK,             \* the scale k of the transform d3 stores on the svg (__zoom)
    handlerZoomLevel,  \* the zoomLevel the click handlers of the last effect closed over
    simulationRef,     \* simulationRef.current: <<>> (null) or <<[nodes, running]>>
    staleSims,         \* node sets of the simulations created earlier that still run
    lastTick,          \* whose step wrote node positions last since initializeGraph
    zoomOps,           \* number of changes of the zoom scale since the graph was mounted
    loadedOver,        \* set by the step that mounts a graph on a loaded snapshot: the view
                       \* mode type its predecessor was unmounted in; "none" after other steps
    linkedEdges,       \* positions in combinedEdges of the edge objects whose source and
                       \* target d3.forceLink replaced by node objects
    memoNodes,         \* the value of the currentNodes memo of the last render
    memoEdges,         \* the value of the currentEdges memo of the last render, as the
                       \* positions in combinedEdges of the edge objects it holds
    host,              \* which clock host is mounted (see Hosts)
    currentTime,       \* the host's currentTime
    videoNodes,        \* the host's node list: records [timestamps, isActive, fx]
                       \* (fx: the node object's fx/fy hold numbers, FALSE = null)
    nodesVersion,      \* identity of the stored node array (changes when it is replaced)
    dragSubject,       \* the drag gesture in progress: <<>> or <<[index, version]>>, the
                       \* node object the gesture started on
    hostSelectedNode,  \* the host's selectedNode: index into the node list, 0 = null
    uploadPc,          \* where the call of handleVideoUpload stands (see the upload section)
    isProcessing,      \* EduGraph.isProcessing
    processingProgress,\* EduGraph.processingProgress: <<>> (null) or <<[stage, progress]>>
    videoData,         \* EduGraph.videoData: "null", or where its value came from
    progressReports,   \* the reports the onProgress callback received in this call
    file,              \* the uploaded file: [decodable]: a video element can load its metadata
    backendError,      \* why processWithBackend threw in this call, "none" if it did not
    processVideoResult,\* how the promise of processVideo settled, "pending" before
    focusInput,        \* arguments of a focusOnNode call: [node, width, height, zoomLevel]
    focusTransform,    \* the transform that call hands to zoom.transform, <<>> if none
    playerHost,        \* the page that renders the VideoPlayer, "none" if none does
    videoTime,         \* videoRef.current.currentTime, in units of 50 ms
    playerCurrentTime, \* the currentTime prop: the host's current time, same unit
    closureTime,       \* currentTime as the registered timeupdate handler captured it
    lastUpdateTime,    \* lastUpdateTime of the registered timeupdate handler
    now,               \* Date.now(), in units of 50 ms from an origin before the mount
    lastReportAt,      \* <<Date.now() of the previous onTimeUpdate call>>, <<>> if none
    isPlaying,         \* the video element is playing
    videoEdges,        \* videoData.edges of the video page: [source, target] node indexes
    knowledgeGraph     \* what KnowledgeGraph.initializeGraph drew in its last run

graphVars == <<processedVideos, currentView, loading, error, combinedNodes, combinedEdges,
               selectedNode, viewMode, zoomLevel, zoomK, handlerZoomLevel,
               simulationRef, staleSims, lastTick, zoomOps, loadedOver,
               linkedEdges, memoNodes, memoEdges>>
linkVars == <<linkedEdges, memoNodes, memoEdges>>
clockVars == <<host, currentTime, videoNodes, nodesVersion, dragSubject, hostSelectedNode,
               videoEdges, knowledgeGraph>>
uploadVars == <<uploadPc, isProcessing, processingProgress, videoData, progressReports,
                file, backendError, processVideoResult>>
focusVars == <<focusInput, focusTransform>>
playerVars == <<playerHost, videoTime, playerCurrentTime, closureTime, lastUpdateTime,
                now, lastReportAt, isPlaying>>
toolVars == <<focusVars, playerVars>>
extraVars == <<uploadVars, toolVars>>
vars == <<graphVars, clockVars, extraVars>>

----------------------------------------------------------------------------
(* Bounds of the model *)
MaxNodes == 2          \* nodes per processed video (main specification)
MaxEdges == 2          \* edges per processed video (main specification)

MaxFoNodes == 3         \* nodes of the video (first-order specification)
MaxFoEdges == 1         \* edges of the video (first-order specification)
MaxNbhNodes == 4        \* nodes of the video (neighborhood specification)
MaxNbhEdges == 3        \* edges of the video (neighborhood specification)
MaxClockNodes == 2      \* nodes of the played video (clock specification)
MaxVersion == 3         \* replacements of the stored node list (clock specification)
MaxZoomOps == 3        \* changes of the zoom scale (buttons, wheel, focus) per mounted graph

(* Program constants *)
LargeNodeSize == 18    \* node.size >= 18
ScaleExtentMax == 4    \* scaleExtent([0.1, 4])
EduGraphWindow == 15   \* Math.abs(timestamp - time) < 15
VideoViewWindow == 5   \* Math.abs(timestamp - time) < 5

NoId == <<>>           \* null / undefined id
RawIds == <<"a", "b", "c", "d", "e">>
DanglingId == "x"      \* an id no node of any video carries

----------------------------------------------------------------------------
(* Exact rational arithmetic for scales *)
RECURSIVE GCD(_, _)
GCD(a, b) == IF b = 0 THEN a ELSE GCD(b, a % b)

Rat(n, d) == LET g == GCD(n, d) IN <<n \div g, d \div g>>
RMul(p, q) == Rat(p[1] * q[1], p[2] * q[2])
RLe(p, q) == p[1] * q[2] <= q[1] * p[2]
RLt(p, q) == p[1] * q[2] < q[1] * p[2]
RAdd(p, q) == Rat(p[1] * q[2] + q[1] * p[2], p[2] * q[2])
RSub(p, q) == Rat(p[1] * q[2] - q[1] * p[2], p[2] * q[2])
RMin(p, q) == IF RLe(p, q) THEN p ELSE q
RMax(p, q) == IF RLe(p, q) THEN q ELSE p

----------------------------------------------------------------------------
(* HierarchicalGraph: derived views *)

RECURSIVE InsertBySizeTiesFirst(_, _)
InsertBySizeTiesFirst(sorted, n) ==
    IF sorted = <<>> THEN <<n>>
    ELSE IF Head(sorted).size > n.size
         THEN <<Head(sorted)>> \o InsertBySizeTiesFirst(Tail(sorted), n)
         ELSE <<n>> \o sorted

\* Array.prototype.sort((a, b) => b.size - a.size): stable, descending by size
RECURSIVE InsertBySize(_, _)
InsertBySize(sorted, n) ==
    IF sorted = <<>> THEN <<n>>
    ELSE IF Head(sorted).size >= n.size
         THEN <<Head(sorted)>> \o InsertBySize(Tail(sorted), n)
         ELSE <<n>> \o sorted

RECURSIVE SortBySizeTiesReversed(_)
SortBySizeTiesReversed(s) ==
    IF s = <<>> THEN <<>>
    ELSE InsertBySizeTiesFirst(SortBySizeTiesReversed(SubSeq(s, 1, Len(s) - 1)), s[Len(s)])

RECURSIVE SortBySize(_)
SortBySize(s) ==
    IF s = <<>> THEN <<>>
    ELSE InsertBySize(SortBySize(SubSeq(s, 1, Len(s) - 1)), s[Len(s)])

incomingEdges(edges) == {edges[i].target : i \in DOMAIN edges}

isFirstOrderStrictSize(node, edges) ==
    \/ node.id \notin incomingEdges(edges)
    \/ node.category = "prerequisite"
    \/ node.size > LargeNodeSize

isFirstOrder(node, edges) ==
    LET hasNoIncomingEdges == node.id \notin incomingEdges(edges)
        isPrerequisite == node.category = "prerequisite"
        isLargeNode == node.size >= LargeNodeSize
    IN hasNoIncomingEdges \/ isPrerequisite \/ isLargeNode

firstOrderNodesUnfiltered(nodes, edges) == SortBySize(nodes)

firstOrderNodes(nodes, edges) ==
    SortBySize(SelectSeq(nodes, LAMBDA n : isFirstOrder(n, edges)))

Touches(edge, nodeId) == edge.source = nodeId \/ edge.target = nodeId

getDetailedNodes(nodes, edges, selectedNodeId) ==
    IF ~\E i \in DOMAIN nodes : nodes[i].id = selectedNodeId
    THEN [nodes |-> <<>>, edges |-> <<>>]
    ELSE
      LET connectedNodeIds ==
              {selectedNodeId} \cup
              UNION {{edges[i].source, edges[i].target} :
                        i \in {j \in DOMAIN edges : Touches(edges[j], selectedNodeId)}}
          secondDegreeNodes ==
              UNION {{edges[i].source, edges[i].target} :
                        i \in {j \in DOMAIN edges :
                                 \E nodeId \in connectedNodeIds : Touches(edges[j], nodeId)}}
          allConnectedIds == connectedNodeIds \cup secondDegreeNodes
      IN [nodes |-> SelectSeq(nodes, LAMBDA n : n.id \in allConnectedIds),
          edges |-> SelectSeq(edges, LAMBDA e : e.source \in allConnectedIds
                                               /\ e.target \in allConnectedIds)]

Overview == [type |-> "overview", selectedNodeId |-> NoId]
Detailed(id) == [type |-> "detailed", selectedNodeId |-> id]

currentNodesOrOverview(vm, firstOrder, nodes, edges) ==
    IF vm.type = "detailed" /\ vm.selectedNodeId \in {nodes[i].id : i \in DOMAIN nodes}
    THEN getDetailedNodes(nodes, edges, vm.selectedNodeId).nodes
    ELSE firstOrder

\* firstOrder: the value of the firstOrderNodes memo; edges: the edge objects as they are
currentNodes(vm, firstOrder, nodes, edges) ==
    IF vm.type = "overview" THEN firstOrder
    ELSE IF vm.selectedNodeId # NoId
         THEN getDetailedNodes(nodes, edges, vm.selectedNodeId).nodes
         ELSE <<>>

currentEdges(vm, firstOrder, nodes, edges) ==
    IF vm.type = "overview"
    THEN LET firstOrderIds == {firstOrder[i].id : i \in DOMAIN firstOrder}
         IN SelectSeq(edges, LAMBDA e : e.source \in firstOrderIds /\ e.target \in firstOrderIds)
    ELSE IF vm.selectedNodeId # NoId
         THEN getDetailedNodes(nodes, edges, vm.selectedNodeId).edges
         ELSE <<>>

Ids(nodes) == {nodes[i].id : i \in DOMAIN nodes}

----------------------------------------------------------------------------
(* Home.fetchVideos: combining the processed videos *)

NewId(videoIndex, id) == <<videoIndex, id>>      \* `${videoPrefix}${node.id}`

\* nodeIdMap.get(id): <<>> stands for undefined
MapGet(nodeIdMap, id) == IF id \in DOMAIN nodeIdMap THEN nodeIdMap[id] ELSE NoId

edgeIsMappedSourceOnly(newSourceId, newTargetId) == newSourceId # NoId
edgeIsMappedTargetOnly(newSourceId, newTargetId) == newTargetId # NoId

\* the edge is pushed when both ids were found in nodeIdMap
edgeIsMapped(newSourceId, newTargetId) == newSourceId # NoId /\ newTargetId # NoId

RECURSIVE CombineNodes(_, _, _)
CombineNodes(vnodes, videoIndex, acc) ==
    IF vnodes = <<>> THEN acc
    ELSE LET node == Head(vnodes)
             newId == NewId(videoIndex, node.id)
         IN CombineNodes(Tail(vnodes), videoIndex,
                [acc EXCEPT !.nodeIdMap = (node.id :> newId) @@ acc.nodeIdMap,
                            !.allNodes = Append(acc.allNodes, [node EXCEPT !.id = newId])])

RECURSIVE CombineEdges(_, _)
CombineEdges(vedges, acc) ==
    IF vedges = <<>> THEN acc
    ELSE LET edge == Head(vedges)
             newSourceId == MapGet(acc.nodeIdMap, edge.source)
             newTargetId == MapGet(acc.nodeIdMap, edge.target)
         IN CombineEdges(Tail(vedges),
                IF edgeIsMapped(newSourceId, newTargetId)
                THEN [acc EXCEPT !.allEdges = Append(acc.allEdges,
                                     [source |-> newSourceId, target |-> newTargetId])]
                ELSE acc)

RECURSIVE CombineVideos(_, _, _)
CombineVideos(videos, videoIndex, acc) ==
    IF videos = <<>> THEN acc
    ELSE CombineVideos(Tail(videos), videoIndex + 1,
             CombineEdges(Head(videos).edges,
                 CombineNodes(Head(videos).nodes, videoIndex, acc)))

EmptyMap == [i \in {} |-> NoId]

fetchVideos(videos) ==
    CombineVideos(videos, 0, [allNodes |-> <<>>, allEdges |-> <<>>, nodeIdMap |-> EmptyMap])

----------------------------------------------------------------------------
(* Inputs: the answers of the backend *)

Node(i, kind) == [id |-> RawIds[i], category |-> kind[1], size |-> kind[2]]
NodeSeqs(n, kinds) ==
    UNION {{[i \in 1..k |-> Node(i, f[i])] : f \in [1..k -> kinds]} : k \in 0..n}
EdgeOf(pair) == [source |-> pair[1], target |-> pair[2]]
EdgeSeqs(ids, m) ==
    UNION {{[i \in 1..k |-> EdgeOf(f[i])] : f \in [1..k -> ids \X ids]} : k \in 0..m}
RawIdSet(n) == {RawIds[i] : i \in 1..n}

\* the ids an edge can name: the ids of the first n nodes, then DanglingId
IdAt(n, i) == IF i <= n THEN RawIds[i] ELSE DanglingId
PairAt(n, p) == <<IdAt(n, (p \div (n + 1)) + 1), IdAt(n, (p % (n + 1)) + 1)>>
\* edge lists of at most m edges without repetition, in the order of PairAt
EdgeLists(pairIndexes, n, m) ==
    UNION {{[i \in 1..k |-> EdgeOf(PairAt(n, f[i]))] :
               f \in {g \in [1..k -> pairIndexes] : \A i \in 1..(k - 1) : g[i] < g[i + 1]}} :
           k \in 0..m}

MainKinds == {<<"definition", 20>>, <<"definition", 5>>}
MainPairIndexes == 0..((MaxNodes + 1) * (MaxNodes + 1) - 1)
MainVideos ==
    {[nodes |-> ns, edges |-> es] :
        ns \in NodeSeqs(MaxNodes, MainKinds),
        es \in EdgeLists(MainPairIndexes, MaxNodes, MaxEdges)}
\* two videos of one node each; the second names ids of the first, its own and DanglingId
SecondVideos ==
    {[nodes |-> <<Node(i, <<"definition", 20>>)>>, edges |-> es] :
        i \in 1..2, es \in EdgeLists(MainPairIndexes, MaxNodes, 1)}
TwoVideoPayloads ==
    {<<[nodes |-> <<Node(1, <<"definition", 20>>)>>, edges |-> <<>>], v>> : v \in SecondVideos}
MainPayloads == {<<>>} \cup {<<v>> : v \in MainVideos} \cup TwoVideoPayloads

----------------------------------------------------------------------------
(* State *)

One == <<1, 1>>
GraphMounted ==
    currentView = "home" /\ ~loading /\ ~error /\ Len(combinedNodes) > 0

\* the node object d3.forceLink stores in link.source / link.target in place of the id:
\* it is equal to no id
NodeObject(id) == Append(id, "object")

\* the edge objects of props.edges as the component reads them: ref is the identity of the
\* object (its position in combinedEdges), source and target are ids until the edge was
\* given to d3.forceLink and node objects from then on
edgeObjects(edges, linked) ==
    [i \in DOMAIN edges |->
        [source |-> IF i \in linked THEN NodeObject(edges[i].source) ELSE edges[i].source,
         target |-> IF i \in linked THEN NodeObject(edges[i].target) ELSE edges[i].target,
         ref |-> i]]

Refs(objects) == [i \in DOMAIN objects |-> objects[i].ref]
Range(s) == {s[i] : i \in DOMAIN s}

\* a render after viewMode changed: the currentNodes and currentEdges memos are computed
\* again.  The firstOrderNodes memo keeps the value of the first render (its dependencies
\* nodes and edges keep their identity), which read the edges as they were fetched.
renderNodes(vm, nodes, edges, linked) ==
    currentNodes(vm, firstOrderNodes(nodes, edges), nodes, edgeObjects(edges, linked))
renderEdges(vm, nodes, edges, linked) ==
    Refs(currentEdges(vm, firstOrderNodes(nodes, edges), nodes, edgeObjects(edges, linked)))

\* what the graph shows: the nodes and, by their ends in the snapshot, the edges of the memos
shownNodes == memoNodes
shownEdges == [i \in DOMAIN memoEdges |-> combinedEdges[memoEdges[i]]]

\* d3.forceSimulation(currentNodes): the simulation a call of initializeGraph creates
NewSimulation(nodes) == [nodes |-> Ids(nodes), running |-> TRUE]

\* what initializeGraph does with the simulation it replaces
previousSimulation(ref) ==
    IF ref # <<>> /\ ref[1].running THEN {ref[1].nodes} ELSE {}

\* initializeGraph of the render whose memos are nodes and edges:
\* d3.forceLink(currentEdges) links the edges, simulationRef.current = simulation
initializeGraph(nodes, edges) ==
    /\ staleSims' = staleSims \cup previousSimulation(simulationRef)
    /\ simulationRef' = <<NewSimulation(nodes)>>
    /\ linkedEdges' = linkedEdges \cup Range(edges)
    /\ lastTick' = "none"

\* setViewMode(vm): the render computes the memos again, then the effect runs
renderViewMode(vm) ==
    /\ viewMode' = vm
    /\ memoNodes' = renderNodes(vm, combinedNodes, combinedEdges, linkedEdges)
    /\ memoEdges' = renderEdges(vm, combinedNodes, combinedEdges, linkedEdges)
    /\ initializeGraph(memoNodes', memoEdges')

\* no graph is rendered: the state of the unmounted instance is never read again
NoGraph ==
    /\ viewMode' = viewMode
    /\ zoomLevel' = One /\ zoomK' = One /\ handlerZoomLevel' = One
    /\ simulationRef' = <<>> /\ staleSims' = {} /\ lastTick' = "none"
    /\ zoomOps' = 0
    /\ loadedOver' = "none"
    /\ linkedEdges' = {} /\ memoNodes' = <<>> /\ memoEdges' = <<>>

mountViewModeKept(previous) == previous

\* useState({ type: 'overview' }), useState(1), the first run of the effect
mountViewMode(previous) == Overview

MountGraph(nodes, edges) ==
    /\ viewMode' = mountViewMode(viewMode)
    /\ zoomLevel' = One /\ zoomK' = One /\ handlerZoomLevel' = One
    /\ staleSims' = {}
    /\ memoNodes' = renderNodes(mountViewMode(viewMode), nodes, edges, {})
    /\ memoEdges' = renderEdges(mountViewMode(viewMode), nodes, edges, {})
    /\ simulationRef' = <<NewSimulation(memoNodes')>>
    /\ linkedEdges' = Range(memoEdges')
    /\ lastTick' = "none"
    /\ zoomOps' = 0
    /\ loadedOver' = viewMode.type

\* what initializeGraph draws: deps are the identities of the nodes array and of the
\* selected node it ran for, filteredEdges the memoised edge list (indexes of edges),
\* links and circles the styles it gave them, linked whether d3.forceLink has replaced
\* the source and target of the edges by node objects
drawKnowledgeGraph(deps, filtered, nodes, edges, wasLinked) ==
    [deps |-> deps,
     filteredEdges |-> filtered,
     links |-> [i \in DOMAIN filtered |->
                  [edge |-> filtered[i],
                   active |-> \/ nodes[edges[filtered[i]].source].isActive
                              \/ nodes[edges[filtered[i]].target].isActive]],
     circles |-> [i \in DOMAIN nodes |-> nodes[i].isActive],
     linked |-> wasLinked \/ filtered # <<>>]

InitClockIdle ==
    /\ host = "none" /\ currentTime = 0 /\ videoNodes = <<>> /\ nodesVersion = 0
    /\ dragSubject = <<>> /\ hostSelectedNode = 0
    /\ videoEdges = <<>>
    /\ knowledgeGraph = drawKnowledgeGraph([nodes |-> 0, selected |-> <<>>], <<>>, <<>>, <<>>, FALSE)

\* no upload was started: useState(false), useState(null), useState(null)
InitUploadIdle ==
    /\ uploadPc = "idle"
    /\ isProcessing = FALSE /\ processingProgress = <<>> /\ videoData = "null"
    /\ progressReports = <<>>
    /\ file = [decodable |-> TRUE, name |-> ""]
    /\ backendError = "none" /\ processVideoResult = "pending"

NoFocusInput == [node |-> [x |-> 0, y |-> 0], width |-> 0, height |-> 0, zoomLevel |-> One]

\* focusOnNode was not called
InitFocusIdle == focusInput = NoFocusInput /\ focusTransform = <<>>

\* no VideoPlayer is mounted
InitPlayerIdle ==
    /\ playerHost = "none"
    /\ videoTime = 0 /\ playerCurrentTime = 0 /\ closureTime = 0
    /\ lastUpdateTime = 0 /\ now = 0 /\ lastReportAt = <<>>
    /\ isPlaying = FALSE

InitToolsIdle == InitFocusIdle /\ InitPlayerIdle

InitExtraIdle == InitUploadIdle /\ InitToolsIdle

InitGraph(payloads) ==
    /\ processedVideos \in payloads
    /\ currentView = "home"
    /\ loading = TRUE /\ error = FALSE
    /\ combinedNodes = <<>> /\ combinedEdges = <<>>
    /\ selectedNode = NoId
    /\ viewMode = Overview
    /\ zoomLevel = One /\ zoomK = One /\ handlerZoomLevel = One
    /\ simulationRef = <<>> /\ staleSims = {} /\ lastTick = "none"
    /\ zoomOps = 0
    /\ loadedOver = "none"
    /\ linkedEdges = {} /\ memoNodes = <<>> /\ memoEdges = <<>>
    /\ InitClockIdle
    /\ InitExtraIdle

----------------------------------------------------------------------------
(* App and Home *)

\* App: setCurrentView('upload') unmounts Home and the graph
NavigateUpload ==
    /\ currentView = "home"
    /\ currentView' = "upload"
    /\ loading' = TRUE /\ error' = FALSE
    /\ combinedNodes' = <<>> /\ combinedEdges' = <<>>
    /\ selectedNode' = NoId
    /\ NoGraph
    /\ UNCHANGED <<processedVideos, clockVars, extraVars>>

\* App: setCurrentView('home') mounts a new Home, whose effect calls fetchVideos
NavigateHome ==
    /\ currentView = "upload"
    /\ currentView' = "home"
    /\ loadedOver' = "none"
    /\ UNCHANGED <<processedVideos, loading, error, combinedNodes, combinedEdges,
                   selectedNode, viewMode, zoomLevel, zoomK, handlerZoomLevel,
                   simulationRef, staleSims, lastTick, zoomOps, linkVars, clockVars, extraVars>>

\* the backend finishes processing another upload
BackendUpdate(payloads) ==
    /\ currentView = "upload"
    /\ processedVideos' \in payloads \ {processedVideos}
    /\ loadedOver' = "none"
    /\ UNCHANGED <<currentView, loading, error, combinedNodes, combinedEdges,
                   selectedNode, viewMode, zoomLevel, zoomK, handlerZoomLevel,
                   simulationRef, staleSims, lastTick, zoomOps, linkVars, clockVars, extraVars>>

\* Home.fetchVideos after the response arrived
FetchResolve ==
    /\ currentView = "home" /\ loading
    /\ LET combined == fetchVideos(processedVideos) IN
         /\ combinedNodes' = combined.allNodes
         /\ combinedEdges' = combined.allEdges
         /\ IF Len(combined.allNodes) > 0
            THEN MountGraph(combined.allNodes, combined.allEdges)
            ELSE NoGraph
    /\ loading' = FALSE
    /\ UNCHANGED <<processedVideos, currentView, error, selectedNode, clockVars, extraVars>>

\* Home.fetchVideos: response.ok is false or fetch rejects
FetchFail ==
    /\ currentView = "home" /\ loading
    /\ error' = TRUE
    /\ loading' = FALSE
    /\ loadedOver' = "none"
    /\ UNCHANGED <<processedVideos, currentView, combinedNodes, combinedEdges, selectedNode,
                   viewMode, zoomLevel, zoomK, handlerZoomLevel,
                   simulationRef, staleSims, lastTick, zoomOps, linkVars, clockVars, extraVars>>

----------------------------------------------------------------------------
(* HierarchicalGraph: handlers *)

targetScaleNoFloor(currentScale) == RMin(<<2, 1>>, RMul(currentScale, <<13, 10>>))

\* Math.min(2.0, Math.max(1.2, currentScale * 1.3))
targetScale(currentScale) ==
    RMin(<<2, 1>>, RMax(<<6, 5>>, RMul(currentScale, <<13, 10>>)))

clickViewModeAlways(vm, id) == Detailed(id)

\* if (viewMode.type === 'overview') setViewMode({ type: 'detailed', selectedNodeId: d.id })
clickViewMode(vm, id) == IF vm.type = "overview" THEN Detailed(id) ELSE vm

\* nodeGroups.on('click'): onNodeClick(d), setViewMode, focusOnNode, then the effect
\* hasPosition: node.x and node.y are both truthy
NodeClick(id, hasPosition) ==
    /\ GraphMounted
    /\ id \in Ids(shownNodes)
    /\ selectedNode' = id
    /\ hasPosition => zoomOps < MaxZoomOps
    /\ IF hasPosition
       THEN /\ zoomK' = targetScale(handlerZoomLevel)
            /\ zoomLevel' = targetScale(handlerZoomLevel)
            /\ zoomOps' = zoomOps + 1
       ELSE UNCHANGED <<zoomK, zoomLevel, zoomOps>>
    /\ IF clickViewMode(viewMode, id) # viewMode
       THEN /\ renderViewMode(clickViewMode(viewMode, id))
            /\ handlerZoomLevel' = zoomLevel
       ELSE /\ UNCHANGED <<viewMode, memoNodes, memoEdges>>
            /\ IF selectedNode' # selectedNode
               THEN /\ initializeGraph(memoNodes, memoEdges)
                    /\ handlerZoomLevel' = zoomLevel
               ELSE UNCHANGED <<handlerZoomLevel, simulationRef, staleSims, lastTick,
                                linkedEdges>>
    /\ loadedOver' = "none"
    /\ UNCHANGED <<processedVideos, currentView, loading, error, combinedNodes,
                   combinedEdges, clockVars, extraVars>>

handleBackToOverview ==
    /\ GraphMounted
    /\ viewMode.type = "detailed"
    /\ renderViewMode(Overview)
    /\ handlerZoomLevel' = zoomLevel
    /\ loadedOver' = "none"
    /\ UNCHANGED <<processedVideos, currentView, loading, error, combinedNodes,
                   combinedEdges, selectedNode, zoomLevel, zoomK, zoomOps, clockVars, extraVars>>

\* window 'resize': initializeGraph() of the last render, same closures
handleResize ==
    /\ GraphMounted
    /\ initializeGraph(memoNodes, memoEdges)
    /\ loadedOver' = "none"
    /\ UNCHANGED <<processedVideos, currentView, loading, error, combinedNodes,
                   combinedEdges, selectedNode, viewMode, zoomLevel, zoomK,
                   handlerZoomLevel, zoomOps, memoNodes, memoEdges, clockVars, extraVars>>

\* d3.zoom().scaleBy of a new zoom behaviour: its scaleExtent is the default
\* [0, Infinity] and it has no 'zoom' listener, so setZoomLevel is not called
scaleBy(k, factor) == RMul(k, factor)

handleZoomIn ==
    /\ GraphMounted
    /\ zoomOps < MaxZoomOps
    /\ zoomOps' = zoomOps + 1
    /\ zoomK' = scaleBy(zoomK, <<3, 2>>)
    /\ loadedOver' = "none"
    /\ UNCHANGED <<processedVideos, currentView, loading, error, combinedNodes,
                   combinedEdges, selectedNode, viewMode, zoomLevel, handlerZoomLevel,
                   simulationRef, staleSims, lastTick, linkVars, clockVars, extraVars>>

handleZoomOut ==
    /\ GraphMounted
    /\ zoomOps < MaxZoomOps
    /\ zoomOps' = zoomOps + 1
    /\ zoomK' = scaleBy(zoomK, <<2, 3>>)
    /\ loadedOver' = "none"
    /\ UNCHANGED <<processedVideos, currentView, loading, error, combinedNodes,
                   combinedEdges, selectedNode, viewMode, zoomLevel, handlerZoomLevel,
                   simulationRef, staleSims, lastTick, linkVars, clockVars, extraVars>>

\* d3.zoom().transform(d3.zoomIdentity) of a new zoom behaviour, then
\* simulationRef.current.alpha(1).restart()
handleReset ==
    /\ GraphMounted
    /\ zoomK' = One
    /\ simulationRef' = IF simulationRef = <<>> THEN <<>>
                        ELSE <<[simulationRef[1] EXCEPT !.running = TRUE]>>
    /\ loadedOver' = "none"
    /\ UNCHANGED <<processedVideos, currentView, loading, error, combinedNodes,
                   combinedEdges, selectedNode, viewMode, zoomLevel, handlerZoomLevel,
                   staleSims, lastTick, zoomOps, linkVars, clockVars, extraVars>>

\* the zoom behaviour of initializeGraph: scaleExtent([0.1, 4])
clampScale(k) == RMax(<<1, 10>>, RMin(<<ScaleExtentMax, 1>>, k))

WheelFactors == {<<2, 1>>, <<1, 2>>}

\* wheel gesture on the svg: the 'zoom' listener calls setZoomLevel(event.transform.k)
Wheel(factor) ==
    /\ GraphMounted
    /\ zoomOps < MaxZoomOps
    /\ zoomOps' = zoomOps + 1
    /\ clampScale(RMul(zoomK, factor)) # zoomK
    /\ zoomK' = clampScale(RMul(zoomK, factor))
    /\ zoomLevel' = zoomK'
    /\ loadedOver' = "none"
    /\ UNCHANGED <<processedVideos, currentView, loading, error, combinedNodes,
                   combinedEdges, selectedNode, viewMode, handlerZoomLevel,
                   simulationRef, staleSims, lastTick, linkVars, clockVars, extraVars>>

\* pan gesture: the translation changes, k does not; the listener runs
Pan ==
    /\ GraphMounted
    /\ zoomLevel' = zoomK
    /\ loadedOver' = "none"
    /\ UNCHANGED <<processedVideos, currentView, loading, error, combinedNodes,
                   combinedEdges, selectedNode, viewMode, zoomK, handlerZoomLevel,
                   simulationRef, staleSims, lastTick, zoomOps, linkVars, clockVars, extraVars>>

\* simulation.on('tick') of simulationRef.current; cools: alpha fell below alphaMin
SimTick(cools) ==
    /\ simulationRef # <<>> /\ simulationRef[1].running
    /\ simulationRef[1].nodes # {}
    /\ lastTick' = "current"
    /\ simulationRef' = <<[simulationRef[1] EXCEPT !.running = ~cools]>>
    /\ loadedOver' = "none"
    /\ UNCHANGED <<processedVideos, currentView, loading, error, combinedNodes,
                   combinedEdges, selectedNode, viewMode, zoomLevel, zoomK,
                   handlerZoomLevel, staleSims, zoomOps, linkVars, clockVars, extraVars>>

\* simulation.on('tick') of a simulation that initializeGraph replaced
StaleSimTick(sim, cools) ==
    /\ sim \in staleSims
    /\ lastTick' = IF sim # {} THEN "stale" ELSE lastTick
    /\ staleSims' = IF cools THEN staleSims \ {sim} ELSE staleSims
    /\ loadedOver' = "none"
    /\ UNCHANGED <<processedVideos, currentView, loading, error, combinedNodes,
                   combinedEdges, selectedNode, viewMode, zoomLevel, zoomK,
                   handlerZoomLevel, simulationRef, zoomOps, linkVars, clockVars, extraVars>>

----------------------------------------------------------------------------
(* Specifications of the home page *)


AppNext(payloads) ==
    \/ NavigateUpload
    \/ NavigateHome
    \/ BackendUpdate(payloads)
    \/ FetchResolve
    \/ FetchFail

ViewNext ==
    \/ \E id \in Ids(combinedNodes), hasPosition \in BOOLEAN : NodeClick(id, hasPosition)
    \/ handleBackToOverview
    \/ handleResize

ZoomNext ==
    \/ handleZoomIn
    \/ handleZoomOut
    \/ handleReset
    \/ \E factor \in WheelFactors : Wheel(factor)
    \/ Pan

SimNext ==
    \/ \E cools \in BOOLEAN : SimTick(cools)
    \/ \E sim \in staleSims, cools \in BOOLEAN : StaleSimTick(sim, cools)

Init == InitGraph(MainPayloads)
Next == AppNext(MainPayloads) \/ ViewNext \/ SimNext
Spec == Init /\ [][Next]_vars

\* the zoom transform: one fixed answer of the backend, every gesture
ZoomVideo ==
    [nodes |-> <<Node(1, <<"definition", 20>>)>>, edges |-> <<>>]
ZoomPayloads == {<<ZoomVideo>>}

InitZoom == InitGraph(ZoomPayloads)
NextZoom ==
    \/ NavigateUpload
    \/ NavigateHome
    \/ FetchResolve
    \/ FetchFail
    \/ ViewNext
    \/ ZoomNext
    \/ SimNext
SpecZoom == InitZoom /\ [][NextZoom]_vars

\* the first-order set: node attributes vary, the graph stays in the overview
FoKinds == {<<"definition", 5>>, <<"prerequisite", 10>>, <<"definition", 18>>,
            <<"definition", 20>>}
FoVideos ==
    {[nodes |-> ns, edges |-> es] :
        ns \in NodeSeqs(MaxFoNodes, FoKinds),
        es \in EdgeSeqs(RawIdSet(MaxFoNodes), MaxFoEdges)}
FoPayloads == {<<v>> : v \in FoVideos}

InitFirstOrder == InitGraph(FoPayloads)
NextFirstOrder ==
    \/ NavigateUpload
    \/ NavigateHome
    \/ FetchResolve
    \/ FetchFail
SpecFirstOrder == InitFirstOrder /\ [][NextFirstOrder]_vars

\* the neighborhood: two large nodes, then small ones (first-order only when no edge
\* targets them); the edges vary
NbhNodes ==
    [i \in 1..MaxNbhNodes |-> Node(i, IF i <= 2 THEN <<"definition", 20>>
                                               ELSE <<"definition", 5>>)]
NbhPairIndexes ==
    {p \in 0..((MaxNbhNodes + 1) * (MaxNbhNodes + 1) - 1) :
        /\ PairAt(MaxNbhNodes, p)[1] # PairAt(MaxNbhNodes, p)[2]
        /\ DanglingId \notin {PairAt(MaxNbhNodes, p)[1], PairAt(MaxNbhNodes, p)[2]}}
NbhEdgeSeqs == EdgeLists(NbhPairIndexes, MaxNbhNodes, MaxNbhEdges)
NbhVideos == {[nodes |-> NbhNodes, edges |-> es] : es \in NbhEdgeSeqs}
NbhPayloads == {<<v>> : v \in NbhVideos}

InitNeighborhood == InitGraph(NbhPayloads)
NextNeighborhood ==
    \/ FetchResolve
    \/ \E id \in Ids(combinedNodes), hasPosition \in BOOLEAN : NodeClick(id, hasPosition)
    \/ handleBackToOverview
SpecNeighborhood == InitNeighborhood /\ [][NextNeighborhood]_vars

\* the values of the view state: { type: 'overview' | 'detailed', selectedNodeId?: string },
\* with focus ids of the snapshot, ids that are no node of it, and no id at all
FocusIds == {NewId(0, IdAt(MaxNodes, i)) : i \in 1..(MaxNodes + 1)} \cup {NoId}
ViewModes == {Overview} \cup {Detailed(id) : id \in FocusIds}

\* setViewMode(vm) on the graph of the snapshot that was loaded, then the effect
setViewMode(vm) ==
    /\ currentView = "home" /\ ~loading /\ ~error
    /\ vm # viewMode
    /\ renderViewMode(vm)
    /\ handlerZoomLevel' = zoomLevel
    /\ loadedOver' = "none"
    /\ UNCHANGED <<processedVideos, currentView, loading, error, combinedNodes,
                   combinedEdges, selectedNode, zoomLevel, zoomK, zoomOps, clockVars, extraVars>>

InitViewState == InitGraph(MainPayloads)
NextViewState ==
    \/ FetchResolve
    \/ \E vm \in ViewModes : setViewMode(vm)
SpecViewState == InitViewState /\ [][NextViewState]_vars

----------------------------------------------------------------------------
(* The playback clock: EduGraph (two variants) and VideoView *)

Hosts == {"EduGraph.tsx", "part_000", "VideoView.tsx"}

Abs(x) == IF x < 0 THEN -x ELSE x

withinWindowInclusive(timestamp, time, window) == Abs(timestamp - time) <= window

\* Math.abs(timestamp - time) < window
withinWindow(timestamp, time, window) == Abs(timestamp - time) < window

\* node.timestamps.some(timestamp => ...): scans in order, stops at the first hit
RECURSIVE some(_, _, _)
some(timestamps, time, window) ==
    IF timestamps = <<>> THEN FALSE
    ELSE IF withinWindow(Head(timestamps), time, window) THEN TRUE
         ELSE some(Tail(timestamps), time, window)

\* KnowledgeGraph.filteredEdges: edges.filter(edge => nodeIds.has(edge.source) &&
\* nodeIds.has(edge.target)); nodeIds holds id strings, so an edge whose ends
\* d3.forceLink has replaced by node objects does not pass
filteredEdges(edges, nodes, linked) ==
    IF linked THEN <<>>
    ELSE SelectSeq([i \in DOMAIN edges |-> i],
                   LAMBDA i : edges[i].source \in DOMAIN nodes /\ edges[i].target \in DOMAIN nodes)

\* the render after a handler of the host: the memo of filteredEdges is recomputed
\* when the nodes array is a new one, and the effect calls initializeGraph when the
\* nodes array, the filtered edges or the selected node object changed
renderKnowledgeGraph(selected) ==
    /\ videoEdges' = videoEdges
    /\ LET deps == [nodes |-> nodesVersion', selected |-> selected]
           filtered == IF nodesVersion' = nodesVersion THEN knowledgeGraph.filteredEdges
                       ELSE filteredEdges(videoEdges, videoNodes', knowledgeGraph.linked)
       IN knowledgeGraph' = IF deps = knowledgeGraph.deps THEN knowledgeGraph
                            ELSE drawKnowledgeGraph(deps, filtered, videoNodes', videoEdges,
                                                    knowledgeGraph.linked)

selectedObject == knowledgeGraph.deps.selected

\* videoData.nodes.map(node => ({ ...node, isActive: ... }))
updatedNodes(nodes, time, window) ==
    [i \in DOMAIN nodes |->
        [nodes[i] EXCEPT !.isActive = some(nodes[i].timestamps, time, window)]]

\* updatedNodes.some((node, index) => node.isActive !== videoData.nodes[index].isActive)
hasChanges(updated, nodes) ==
    \E index \in DOMAIN updated : updated[index].isActive # nodes[index].isActive

\* part_000: setVideoData only if (hasChanges)
replacesNodes(updated, nodes) == hasChanges(updated, nodes)

\* EduGraph.handleTimeUpdate of part_000
handleTimeUpdate(time) ==
    /\ host = "part_000"
    /\ currentTime' = time
    /\ LET updated == updatedNodes(videoNodes, time, EduGraphWindow) IN
         IF replacesNodes(updated, videoNodes)
         THEN /\ nodesVersion < MaxVersion
              /\ videoNodes' = updated
              /\ nodesVersion' = nodesVersion + 1
         ELSE UNCHANGED <<videoNodes, nodesVersion>>
    /\ UNCHANGED <<host, dragSubject, hostSelectedNode, graphVars, extraVars>>
    /\ renderKnowledgeGraph(selectedObject)

\* EduGraph.handleTimeUpdate of src/components/EduGraph.tsx: setVideoData on every call
EduGraphHandleTimeUpdate(time) ==
    /\ host = "EduGraph.tsx"
    /\ nodesVersion < MaxVersion
    /\ currentTime' = time
    /\ videoNodes' = updatedNodes(videoNodes, time, EduGraphWindow)
    /\ nodesVersion' = nodesVersion + 1
    /\ UNCHANGED <<host, dragSubject, hostSelectedNode, graphVars, extraVars>>
    /\ renderKnowledgeGraph(selectedObject)

\* VideoView.handleTimeUpdate: writes node.isActive of video.nodes in place
VideoViewHandleTimeUpdate(time) ==
    /\ host = "VideoView.tsx"
    /\ currentTime' = time
    /\ videoNodes' = updatedNodes(videoNodes, time, VideoViewWindow)
    /\ UNCHANGED <<host, nodesVersion, dragSubject, hostSelectedNode, graphVars, extraVars>>
    /\ renderKnowledgeGraph(selectedObject)

\* handleTimelineClick: setCurrentTime(time)
handleTimelineClick(time) ==
    /\ host \in Hosts
    /\ currentTime' = time
    /\ UNCHANGED <<host, videoNodes, nodesVersion, dragSubject, hostSelectedNode, graphVars, extraVars>>
    /\ renderKnowledgeGraph(selectedObject)

Times == {0, 5, 6, 12, 15, 16, 25, 35, 40}
TimestampLists == {<<>>, <<20>>, <<0, 20>>, <<20, 0>>}
ClockNodeSeqs ==
    UNION {{[i \in 1..k |-> [timestamps |-> f[i], isActive |-> FALSE, fx |-> FALSE]] :
               f \in [1..k -> TimestampLists]} : k \in 0..MaxClockNodes}

\* no edge, or one edge from the first node to the last
VideoEdgeSeqs(nodes) ==
    IF nodes = <<>> THEN {<<>>}
    ELSE {<<>>, <<[source |-> 1, target |-> Len(nodes)]>>}

InitClock ==
    /\ host \in Hosts
    /\ currentTime = 0
    /\ videoNodes \in ClockNodeSeqs
    /\ nodesVersion = 0
    /\ dragSubject = <<>> /\ hostSelectedNode = 0
    /\ videoEdges \in VideoEdgeSeqs(videoNodes)
    /\ knowledgeGraph = drawKnowledgeGraph([nodes |-> 0, selected |-> <<>>],
                                           filteredEdges(videoEdges, videoNodes, FALSE),
                                           videoNodes, videoEdges, FALSE)
    /\ processedVideos = <<>>
    /\ currentView = "upload"
    /\ loading = TRUE /\ error = FALSE
    /\ combinedNodes = <<>> /\ combinedEdges = <<>>
    /\ selectedNode = NoId
    /\ viewMode = Overview
    /\ zoomLevel = One /\ zoomK = One /\ handlerZoomLevel = One
    /\ simulationRef = <<>> /\ staleSims = {} /\ lastTick = "none"
    /\ zoomOps = 0
    /\ loadedOver = "none"
    /\ linkedEdges = {} /\ memoNodes = <<>> /\ memoEdges = <<>>
    /\ InitExtraIdle

TimeUpdate(time) ==
    \/ handleTimeUpdate(time)
    \/ EduGraphHandleTimeUpdate(time)
    \/ VideoViewHandleTimeUpdate(time)

NextClock ==
    \/ \E time \in Times : handleTimeUpdate(time)
    \/ \E time \in Times : EduGraphHandleTimeUpdate(time)
    \/ \E time \in Times : VideoViewHandleTimeUpdate(time)
    \/ \E time \in Times : handleTimelineClick(time)
SpecClock == InitClock /\ [][NextClock]_vars

----------------------------------------------------------------------------
(* The video pages: drag gestures on the KnowledgeGraph and node clicks *)

\* the node object the gesture holds is still an element of the stored node list
subjectIsCurrent == dragSubject # <<>> /\ dragSubject[1].version = nodesVersion

\* d3.drag().on('start'): d.fx = d.x; d.fy = d.y
dragstarted(index) ==
    /\ host \in Hosts
    /\ dragSubject = <<>>
    /\ index \in DOMAIN videoNodes
    /\ videoNodes' = [videoNodes EXCEPT ![index].fx = TRUE]
    /\ dragSubject' = <<[index |-> index, version |-> nodesVersion]>>
    /\ UNCHANGED <<host, currentTime, nodesVersion, hostSelectedNode, graphVars, extraVars>>
    /\ UNCHANGED <<videoEdges, knowledgeGraph>>

\* d3.drag().on('drag'): d.fx = event.x; d.fy = event.y, written to the gesture's object
dragged ==
    /\ dragSubject # <<>>
    /\ videoNodes' = IF subjectIsCurrent
                     THEN [videoNodes EXCEPT ![dragSubject[1].index].fx = TRUE]
                     ELSE videoNodes
    /\ UNCHANGED <<host, currentTime, nodesVersion, dragSubject, hostSelectedNode, graphVars, extraVars>>
    /\ UNCHANGED <<videoEdges, knowledgeGraph>>

\* d3.drag().on('end'): d.fx = null; d.fy = null, written to the gesture's object
dragended ==
    /\ dragSubject # <<>>
    /\ videoNodes' = IF subjectIsCurrent
                     THEN [videoNodes EXCEPT ![dragSubject[1].index].fx = FALSE]
                     ELSE videoNodes
    /\ dragSubject' = <<>>
    /\ UNCHANGED <<host, currentTime, nodesVersion, hostSelectedNode, graphVars, extraVars>>
    /\ UNCHANGED <<videoEdges, knowledgeGraph>>

\* EduGraph.handleNodeClick (EduGraph.tsx and part_000)
handleNodeClick(index) ==
    /\ host \in {"EduGraph.tsx", "part_000"}
    /\ index \in DOMAIN videoNodes
    /\ hostSelectedNode' = index
    /\ currentTime' = IF Len(videoNodes[index].timestamps) > 0
                      THEN videoNodes[index].timestamps[1]
                      ELSE currentTime
    /\ UNCHANGED <<host, videoNodes, nodesVersion, dragSubject, graphVars, extraVars>>
    /\ renderKnowledgeGraph(<<index, nodesVersion>>)

\* VideoView.handleNodeClick: setSelectedNode, then only console.log of the timestamp
VideoViewHandleNodeClick(index) ==
    /\ host = "VideoView.tsx"
    /\ index \in DOMAIN videoNodes
    /\ hostSelectedNode' = index
    /\ UNCHANGED <<host, currentTime, videoNodes, nodesVersion, dragSubject, graphVars, extraVars>>
    /\ renderKnowledgeGraph(<<index, nodesVersion>>)

\* ConceptPanel onTimeJump: part_000 passes (time) => onTimeUpdate(time), which is
\* handleTimeUpdate; EduGraph.tsx passes (time) => setCurrentTime(time)
onTimeJump(time) ==
    \/ handleTimeUpdate(time)
    \/ /\ host = "EduGraph.tsx"
       /\ currentTime' = time
       /\ UNCHANGED <<host, videoNodes, nodesVersion, dragSubject, hostSelectedNode,
                      graphVars, extraVars>>
       /\ renderKnowledgeGraph(selectedObject)

NodeIndexes == 1..MaxClockNodes

KnowledgeGraphClick(index) ==
    \/ handleNodeClick(index)
    \/ VideoViewHandleNodeClick(index)

NextPage ==
    \/ \E time \in Times : handleTimeUpdate(time)
    \/ \E time \in Times : EduGraphHandleTimeUpdate(time)
    \/ \E time \in Times : VideoViewHandleTimeUpdate(time)
    \/ \E time \in Times : handleTimelineClick(time)
    \/ \E index \in NodeIndexes : dragstarted(index)
    \/ dragged
    \/ dragended
    \/ \E index \in NodeIndexes : handleNodeClick(index)
    \/ \E index \in NodeIndexes : VideoViewHandleNodeClick(index)
    \/ \E time \in Times : onTimeJump(time)
SpecPage == InitClock /\ [][NextPage]_vars

----------------------------------------------------------------------------
(* The upload page: EduGraph.handleVideoUpload and VideoProcessor *)

Progress(stage, progress) == [stage |-> stage, progress |-> progress]

\* this.updateProgress(...) for each report of reports, in order: the callback of
\* handleVideoUpload calls setProcessingProgress(progress)
updateProgress(reports) ==
    /\ progressReports' = progressReports \o reports
    /\ processingProgress' = IF reports = <<>> THEN processingProgress
                             ELSE <<reports[Len(reports)]>>

fallsBackOnRequestErrorOnly(backendErr) == backendErr = "fetch rejected"

\* processVideo: catch (backendError) { return await this.processWithMock(videoFile) }
fallsBack(backendErr) == TRUE

\* handleVideoUpload: finally { setIsProcessing(false); setProcessingProgress(null) }
finishUpload(reports, data) ==
    /\ progressReports' = progressReports \o reports
    /\ videoData' = data
    /\ isProcessing' = FALSE
    /\ processingProgress' = <<>>
    /\ uploadPc' = "done"

\* processVideo rejects with the error err: handleVideoUpload's catch block awaits
\* getVideoDuration(file) before it builds the mock data
processVideoRejects(reports, err) ==
    /\ updateProgress(reports)
    /\ processVideoResult' = err
    /\ uploadPc' = "fallbackDuration"
    /\ UNCHANGED <<isProcessing, videoData>>

\* processWithBackend threw backendErr after the reports given
backendThrows(reports, backendErr) ==
    /\ backendError' = backendErr
    /\ IF fallsBack(backendErr)
       THEN \* processWithMock, convertVideoToAudio up to its first timer
            /\ updateProgress(reports \o <<Progress("converting", 10)>>)
            /\ uploadPc' = "convert1"
            /\ UNCHANGED <<isProcessing, videoData, processVideoResult>>
       ELSE processVideoRejects(reports, "rejected: backend")

\* the user uploads f: handleVideoUpload up to the fetch of processWithBackend
handleVideoUpload(f) ==
    /\ currentView = "upload"
    /\ uploadPc = "idle"
    /\ file' = f
    /\ isProcessing' = TRUE
    /\ progressReports' = <<Progress("converting", 0), Progress("converting", 20)>>
    /\ processingProgress' = <<Progress("converting", 20)>>
    /\ uploadPc' = "fetch"
    /\ UNCHANGED <<videoData, backendError, processVideoResult, graphVars, clockVars, toolVars>>

FetchOutcomes == {"ok", "fetch rejected", "response not ok"}

\* fetch('/api/process-video') settles
FetchSettles(outcome) ==
    /\ uploadPc = "fetch"
    /\ IF outcome = "ok"
       THEN /\ updateProgress(<<Progress("structuring", 80)>>)
            /\ uploadPc' = "json"
            /\ UNCHANGED <<isProcessing, videoData, backendError, processVideoResult>>
       ELSE backendThrows(<<>>, outcome)
    /\ UNCHANGED <<file, graphVars, clockVars, toolVars>>

JsonOutcomes == {"success", "success without data", "invalid json", "success is false"}

\* response.json() settles
JsonSettles(outcome) ==
    /\ uploadPc = "json"
    /\ CASE outcome = "success" ->
              /\ finishUpload(<<Progress("complete", 100)>>, "processed by backend")
              /\ processVideoResult' = "backend"
              /\ UNCHANGED backendError
         [] outcome = "success without data" ->
              \* 'complete' is reported, then result.data.title throws a TypeError
              backendThrows(<<Progress("complete", 100)>>, outcome)
         [] OTHER -> backendThrows(<<>>, outcome)
    /\ UNCHANGED <<file, graphVars, clockVars, toolVars>>

\* a setTimeout of convertVideoToAudio or transcribeAudio fires
TimerFires ==
    /\ uploadPc \in {"convert1", "convert2", "transcribe1", "transcribe2"}
    /\ CASE uploadPc = "convert1" ->
              /\ updateProgress(<<Progress("converting", 50)>>)
              /\ uploadPc' = "convert2"
         [] uploadPc = "convert2" ->
              /\ updateProgress(<<Progress("converting", 100), Progress("transcribing", 10)>>)
              /\ uploadPc' = "transcribe1"
         [] uploadPc = "transcribe1" ->
              /\ updateProgress(<<Progress("transcribing", 50)>>)
              /\ uploadPc' = "transcribe2"
         [] uploadPc = "transcribe2" ->
              \* structureTranscript up to model.generateContent(prompt)
              /\ updateProgress(<<Progress("transcribing", 100), Progress("structuring", 10),
                                  Progress("structuring", 50)>>)
              /\ uploadPc' = "generateContent"
    /\ UNCHANGED <<isProcessing, videoData, file, backendError, processVideoResult,
                   graphVars, clockVars, toolVars>>

GenerateOutcomes == {"json", "rejected", "no json"}

\* model.generateContent(prompt) settles; structureTranscript's catch rethrows
GenerateContentSettles(outcome) ==
    /\ uploadPc = "generateContent"
    /\ CASE outcome = "json" ->
              /\ updateProgress(<<Progress("structuring", 100)>>)
              /\ uploadPc' = "mockDuration"
              /\ UNCHANGED <<isProcessing, videoData, processVideoResult>>
         [] outcome = "no json" ->
              \* 'structuring' 100 is reported, then JSON.parse throws
              processVideoRejects(<<Progress("structuring", 100)>>,
                                  "rejected: Failed to structure transcript")
         [] OTHER -> processVideoRejects(<<>>, "rejected: Failed to structure transcript")
    /\ UNCHANGED <<file, backendError, graphVars, clockVars, toolVars>>

\* video.onloadedmetadata of getVideoDuration: the promise has no other way to settle
LoadedMetadata ==
    /\ uploadPc \in {"mockDuration", "fallbackDuration"}
    /\ file.decodable
    /\ IF uploadPc = "mockDuration"
       THEN /\ finishUpload(<<Progress("complete", 100)>>, "processed by mock")
            /\ processVideoResult' = "mock"
       ELSE /\ finishUpload(<<>>, "mock data")
            /\ UNCHANGED processVideoResult
    /\ UNCHANGED <<file, backendError, graphVars, clockVars, toolVars>>

FileNames == {"lecture.mp4", "notes"}

\* the files a user can pick: a browser may or may not be able to decode one
Files == [decodable : BOOLEAN, name : FileNames]

\* Home is not mounted: the state of its graph is the one of the hooks' initial values
InitHomeIdle ==
    /\ processedVideos = <<>>
    /\ loading = TRUE /\ error = FALSE
    /\ combinedNodes = <<>> /\ combinedEdges = <<>>
    /\ selectedNode = NoId
    /\ viewMode = Overview
    /\ zoomLevel = One /\ zoomK = One /\ handlerZoomLevel = One
    /\ simulationRef = <<>> /\ staleSims = {} /\ lastTick = "none"
    /\ zoomOps = 0
    /\ loadedOver = "none"
    /\ linkedEdges = {} /\ memoNodes = <<>> /\ memoEdges = <<>>

InitUpload ==
    /\ InitClockIdle
    /\ InitUploadIdle
    /\ InitToolsIdle
    /\ InitHomeIdle
    /\ currentView = "upload"

PipelineStep ==
    \/ \E outcome \in FetchOutcomes : FetchSettles(outcome)
    \/ \E outcome \in JsonOutcomes : JsonSettles(outcome)
    \/ TimerFires
    \/ \E outcome \in GenerateOutcomes : GenerateContentSettles(outcome)
    \/ LoadedMetadata

NextUpload ==
    \/ \E f \in Files : handleVideoUpload(f)
    \/ PipelineStep
SpecUpload == InitUpload /\ [][NextUpload]_vars
\* requests settle and timers fire; the metadata of a decodable file loads
FairSpecUpload == SpecUpload /\ WF_vars(PipelineStep)

----------------------------------------------------------------------------
(* HierarchicalGraph.focusOnNode as a function of its arguments *)

RInt(n) == <<n, 1>>

zoomIdentity == [k |-> One, x |-> RInt(0), y |-> RInt(0)]

\* d3 Transform.translate(x, y): new Transform(k, this.x + this.k * x, this.y + this.k * y)
translate(t, x, y) ==
    [k |-> t.k, x |-> RAdd(t.x, RMul(t.k, x)), y |-> RAdd(t.y, RMul(t.k, y))]

\* d3 Transform.scale(k): new Transform(this.k * k, this.x, this.y)
scale(t, k) == [k |-> RMul(t.k, k), x |-> t.x, y |-> t.y]

\* d3 Transform.apply: the screen position of the point (x, y)
applyX(t, x) == RAdd(RMul(x, t.k), t.x)
applyY(t, y) == RAdd(RMul(y, t.k), t.y)

\* d3.zoomIdentity.translate(width / 2 - centerX * targetScale,
\*                           height / 2 - adjustedCenterY * targetScale).scale(targetScale)
\* with adjustedCenterY = centerY - height * 0.1
focusTransformOf(node, width, height, currentScale) ==
    LET k == targetScale(currentScale)
        adjustedCenterY == RSub(RInt(node.y), Rat(height, 10))
    IN scale(translate(zoomIdentity,
                       RSub(Rat(width, 2), RMul(RInt(node.x), k)),
                       RSub(Rat(height, 2), RMul(adjustedCenterY, k))),
             k)

\* focusOnNode(node, svg, zoom, width, height); if (!node.x || !node.y) return
focusOnNode ==
    /\ currentView = "home"
    /\ focusTransform = <<>>
    /\ focusInput.node.x # 0 /\ focusInput.node.y # 0
    /\ focusTransform' = <<focusTransformOf(focusInput.node, focusInput.width,
                                            focusInput.height, focusInput.zoomLevel)>>
    /\ UNCHANGED <<focusInput, playerVars, uploadVars, graphVars, clockVars>>

FocusCoordinates == {-120, 0, 60, 300}
FocusSizes == {<<600, 400>>, <<800, 600>>}
FocusScales == {<<1, 10>>, <<1, 2>>, One, <<13, 10>>, <<2, 1>>, <<4, 1>>}

InitFocus ==
    /\ InitClockIdle
    /\ InitUploadIdle
    /\ InitHomeIdle
    /\ InitPlayerIdle
    /\ currentView = "home"
    /\ \E x, y \in FocusCoordinates, size \in FocusSizes, k \in FocusScales :
          focusInput = [node |-> [x |-> x, y |-> y], width |-> size[1],
                        height |-> size[2], zoomLevel |-> k]
    /\ focusTransform = <<>>

NextFocus == focusOnNode
SpecFocus == InitFocus /\ [][NextFocus]_vars

----------------------------------------------------------------------------
(* VideoPlayer: the seek effect and the timeupdate handler, times in units of 50 ms *)

SeekThreshold == 10     \* timeDiff > 0.5
ReportThreshold == 2    \* Math.abs(currentVideoTime - currentTime) > 0.1
UPDATE_INTERVAL == 4    \* const UPDATE_INTERVAL = 200
StartNow == 4           \* Date.now() at the mount: not below UPDATE_INTERVAL
MaxNow == 12            \* the clock stops here
MaxRenderDelay == 1     \* time from a report to the effects of the render it causes

\* useEffect [currentTime]: the element's time after the effect
seekEffect(elementTime, hostTime) ==
    IF Abs(elementTime - hostTime) > SeekThreshold THEN hostTime ELSE elementTime

\* the video element's time after dt units
played(dt) == IF isPlaying THEN videoTime + dt ELSE videoTime

\* the conditions under which the registered handler calls onTimeUpdate
handlerReports ==
    /\ now - lastUpdateTime >= UPDATE_INTERVAL
    /\ Abs(videoTime - closureTime) > ReportThreshold

\* useEffect [onTimeUpdate]: the host's handleTimeUpdate is a useCallback on
\* [videoData]; EduGraph.tsx calls setVideoData in every call, part_000 only when
\* some isActive flag changes
rerunsTimeupdateEffect(h, flagsChange) == h = "EduGraph.tsx" \/ flagsChange

\* the element fires 'timeupdate': handleTimeUpdate of the effect, the host's
\* handleTimeUpdate it calls, and the effects of the render that follows
VideoPlayerTimeupdate(flagsChange, delay) ==
    /\ playerHost # "none"
    /\ handlerReports
    /\ now + delay <= MaxNow
    /\ playerCurrentTime' = videoTime
    /\ lastReportAt' = <<now>>
    /\ now' = now + delay
    /\ videoTime' = seekEffect(played(delay), videoTime)
    /\ IF rerunsTimeupdateEffect(playerHost, flagsChange)
       THEN closureTime' = videoTime /\ lastUpdateTime' = 0
       ELSE lastUpdateTime' = now /\ UNCHANGED closureTime
    /\ UNCHANGED <<playerHost, isPlaying, focusVars, uploadVars, graphVars, clockVars>>

\* time passes, the video advances while it plays
videoPlays(dt) ==
    /\ playerHost # "none"
    /\ now + dt <= MaxNow
    /\ now' = now + dt
    /\ videoTime' = played(dt)
    /\ UNCHANGED <<playerHost, playerCurrentTime, closureTime, lastUpdateTime, lastReportAt,
                   isPlaying, focusVars, uploadVars, graphVars, clockVars>>

\* togglePlay
togglePlay ==
    /\ playerHost # "none"
    /\ isPlaying' = ~isPlaying
    /\ UNCHANGED <<playerHost, videoTime, playerCurrentTime, closureTime, lastUpdateTime,
                   now, lastReportAt, focusVars, uploadVars, graphVars, clockVars>>

\* the host's handleTimelineClick or handleNodeClick: setCurrentTime(time), then
\* the seek effect; onTimeUpdate keeps its identity
hostSetsCurrentTime(time) ==
    /\ playerHost # "none"
    /\ playerCurrentTime' = time
    /\ videoTime' = seekEffect(videoTime, time)
    /\ UNCHANGED <<playerHost, closureTime, lastUpdateTime, now, lastReportAt, isPlaying,
                   focusVars, uploadVars, graphVars, clockVars>>

\* handleProgressClick: videoRef.current.currentTime = newTime
handleProgressClick(newTime) ==
    /\ playerHost # "none"
    /\ videoTime' = newTime
    /\ UNCHANGED <<playerHost, playerCurrentTime, closureTime, lastUpdateTime, now,
                   lastReportAt, isPlaying, focusVars, uploadVars, graphVars, clockVars>>

PlayerHosts == {"EduGraph.tsx", "part_000"}
PlayerTimes == {0, 8, 30}
PlayTimes == 1..3

InitPlayer ==
    /\ InitClockIdle
    /\ InitUploadIdle
    /\ InitHomeIdle
    /\ InitFocusIdle
    /\ currentView = "upload"
    /\ playerHost \in PlayerHosts
    /\ videoTime = 0 /\ playerCurrentTime = 0 /\ closureTime = 0
    /\ lastUpdateTime = 0 /\ now = StartNow /\ lastReportAt = <<>>
    /\ isPlaying = FALSE

NextPlayer ==
    \/ \E flagsChange \in BOOLEAN, delay \in 0..MaxRenderDelay :
          VideoPlayerTimeupdate(flagsChange, delay)
    \/ \E dt \in PlayTimes : videoPlays(dt)
    \/ togglePlay
    \/ \E time \in PlayerTimes : hostSetsCurrentTime(time)
    \/ \E newTime \in PlayerTimes : handleProgressClick(newTime)
SpecPlayer == InitPlayer /\ [][NextPlayer]_vars

----------------------------------------------------------------------------
(* Claims *)

IdSeq(nodes) == [i \in DOMAIN nodes |-> nodes[i].id]
isTargetOfSomeEdge(id) == \E j \in DOMAIN combinedEdges : combinedEdges[j].target = id

ScenarioNodes ==
    <<[id |-> <<0, "a">>, category |-> "definition", size |-> 20],
      [id |-> <<0, "b">>, category |-> "prerequisite", size |-> 10],
      [id |-> <<0, "c">>, category |-> "definition", size |-> 5]>>
ScenarioEdges == <<[source |-> <<0, "a">>, target |-> <<0, "c">>]>>

\* C1: a node of the snapshot is in the first-order set iff no edge targets it, or its
\* category is 'prerequisite', or its size is >= 18; for A(20), B(10, prerequisite),
\* C(5, target of A->C) the first-order sequence is exactly [A, B].
C1_FirstOrderMembership ==
    GraphMounted =>
      /\ \A i \in DOMAIN combinedNodes :
            combinedNodes[i].id \in Ids(firstOrderNodes(combinedNodes, combinedEdges))
            <=> \/ ~isTargetOfSomeEdge(combinedNodes[i].id)
                \/ combinedNodes[i].category = "prerequisite"
                \/ combinedNodes[i].size >= 18
      /\ (combinedNodes = ScenarioNodes /\ combinedEdges = ScenarioEdges)
            => IdSeq(shownNodes) = <<<<0, "a">>, <<0, "b">>>>

C1_Witness ==
    /\ GraphMounted
    /\ combinedNodes = ScenarioNodes /\ combinedEdges = ScenarioEdges
    /\ viewMode.type = "overview"
    /\ IdSeq(shownNodes) = <<<<0, "a">>, <<0, "b">>>>

payloadHasDanglingEdgeAt(rawId) ==
    \E v \in DOMAIN processedVideos : \E j \in DOMAIN processedVideos[v].edges :
        LET e == processedVideos[v].edges[j] IN
          \/ e.source = rawId /\ e.target = DanglingId
          \/ e.target = rawId /\ e.source = DanglingId

\* C2: in every view state and for every answer of the backend, also one whose edges
\* name ids that no node carries, every edge of the view's edge set has its source
\* and its target among the ids of the view's node set.
C2_NoDanglingEdgeShown ==
    GraphMounted =>
      \A j \in DOMAIN shownEdges :
          /\ shownEdges[j].source \in Ids(shownNodes)
          /\ shownEdges[j].target \in Ids(shownNodes)

C2_Witness ==
    /\ GraphMounted
    /\ viewMode.type = "detailed"
    /\ payloadHasDanglingEdgeAt(viewMode.selectedNodeId[2])
    /\ Len(shownEdges) > 0

Adjacent(u, v) ==
    \E j \in DOMAIN combinedEdges :
        \/ combinedEdges[j].source = u /\ combinedEdges[j].target = v
        \/ combinedEdges[j].source = v /\ combinedEdges[j].target = u
WithinTwoHops(focus, n) ==
    \/ n = focus
    \/ Adjacent(focus, n)
    \/ \E m \in Ids(combinedNodes) : Adjacent(focus, m) /\ Adjacent(m, n)
WithinThreeHops(focus, n) ==
    \E m \in Ids(combinedNodes) : WithinTwoHops(focus, m) /\ (m = n \/ Adjacent(m, n))

\* C3: for a focus id of the snapshot the node set the neighborhood computation returned
\* for the detail view contains the focus and is exactly the set of snapshot nodes at
\* undirected edge distance <= 2 from it.
C3_NeighborhoodIsTwoHops ==
    (GraphMounted /\ viewMode.type = "detailed") =>
      LET focus == viewMode.selectedNodeId
          result == shownNodes
      IN /\ focus \in Ids(result)
         /\ Ids(result) = {n \in Ids(combinedNodes) : WithinTwoHops(focus, n)}

\* C4 as claimed: in Detail(x) a click on a shown node n makes the view Detail(n.id).
C4_ClickInDetailMovesFocus ==
    [][\A id \in Ids(combinedNodes), hasPosition \in BOOLEAN :
          (viewMode.type = "detailed" /\ NodeClick(id, hasPosition))
             => viewMode' = Detailed(id)]_vars

\* C4 amended: in Detail(x) a click on a shown node n leaves the view mode Detail(x)
\* and the node and edge sets shown unchanged; it only makes n the selected node.
C4_ClickInDetailKeepsFocus ==
    [][\A id \in Ids(combinedNodes), hasPosition \in BOOLEAN :
          (viewMode.type = "detailed" /\ NodeClick(id, hasPosition))
             => /\ viewMode' = viewMode
                /\ selectedNode' = id
                /\ shownNodes' = shownNodes
                /\ shownEdges' = shownEdges]_vars

C4_Witness ==
    /\ GraphMounted /\ viewMode.type = "detailed"
    /\ selectedNode # NoId
    /\ selectedNode # viewMode.selectedNodeId
    /\ selectedNode \in Ids(shownNodes)

\* C5: whenever a new nodes/edges pair is loaded into the hierarchical graph the view
\* mode is Overview afterwards, whatever it was before; a detail view always has a
\* focus of the snapshot shown.
C5_NewSnapshotResetsToOverview ==
    /\ [][((combinedNodes' # combinedNodes \/ combinedEdges' # combinedEdges)
            /\ GraphMounted') => viewMode' = Overview]_vars
    /\ []((GraphMounted /\ viewMode.type = "detailed")
            => viewMode.selectedNodeId \in Ids(combinedNodes))

C5_Witness ==
    /\ GraphMounted
    /\ loadedOver = "detailed"
    /\ viewMode = Overview
    /\ shownNodes = firstOrderNodes(combinedNodes, combinedEdges)

liveSimulations ==
    Cardinality(staleSims)
      + (IF simulationRef # <<>> /\ simulationRef[1].running THEN 1 ELSE 0)

\* C6: at most one force simulation is live at any time, and after a new simulation
\* has started no tick of an older simulation writes a node position.
C6_SingleLiveSimulation ==
    /\ liveSimulations <= 1
    /\ lastTick # "stale"

activeAt(timestamps, time, window) ==
    \E k \in DOMAIN timestamps :
        timestamps[k] - time < window /\ time - timestamps[k] < window
windowOf(h) == IF h = "VideoView.tsx" THEN 5 ELSE 15

\* C7: after every clock tick with time t each node's isActive is true iff one of its
\* timestamps ts has |ts - t| < window (15 in EduGraph, 5 in VideoView), whatever the
\* order of the timestamps; |ts - t| = window gives false, no timestamps gives false.
C7_ActiveIffWithinWindow ==
    [][\A time \in Times :
          TimeUpdate(time) =>
             \A i \in DOMAIN videoNodes' :
                 videoNodes'[i].isActive
                   = activeAt(videoNodes[i].timestamps, time, windowOf(host))]_vars

C7_Witness ==
    /\ host = "part_000"
    /\ currentTime = 12
    /\ \E i \in DOMAIN videoNodes :
          videoNodes[i].timestamps = <<0, 20>> /\ videoNodes[i].isActive
    /\ \E i \in DOMAIN videoNodes :
          videoNodes[i].timestamps = <<>> /\ ~videoNodes[i].isActive

\* C8: a clock tick replaces the stored node list only when the recomputed isActive
\* of at least one node differs from its stored value.
C8_TickReplacesOnlyOnChange ==
    [][\A time \in Times :
          (TimeUpdate(time)
             /\ \A i \in DOMAIN videoNodes :
                   some(videoNodes[i].timestamps, time, windowOf(host))
                     = videoNodes[i].isActive)
          => nodesVersion' = nodesVersion]_vars

inScaleExtent(k) == RLe(<<1, 10>>, k) /\ RLe(k, <<4, 1>>)

\* C9: after any sequence of zoom-in, zoom-out, reset, focus and wheel/pan operations
\* the scale of the stored zoom transform lies in [0.1, 4.0].
C9_ScaleWithinExtent ==
    GraphMounted => inScaleExtent(zoomK)

\* C10: the scale focusOnNode animates to is 1.3 times the scale it reads, clamped to
\* [1.2, 2.0], so it lies in [1.2, 2.0]; when the scale before the call is below 1.2
\* the scale after it is not below the scale before.
C10_FocusScaleRange ==
    [][\A id \in Ids(combinedNodes) :
          NodeClick(id, TRUE) =>
            /\ RLe(<<6, 5>>, zoomK') /\ RLe(zoomK', <<2, 1>>)
            /\ (inScaleExtent(handlerZoomLevel) =>
                  zoomK' = IF RLe(RMul(<<13, 10>>, handlerZoomLevel), <<6, 5>>) THEN <<6, 5>>
                           ELSE IF RLe(<<2, 1>>, RMul(<<13, 10>>, handlerZoomLevel))
                                THEN <<2, 1>>
                                ELSE RMul(<<13, 10>>, handlerZoomLevel))
            /\ (RLt(zoomK, <<6, 5>>) => RLe(zoomK, zoomK'))
            /\ (RLt(handlerZoomLevel, <<6, 5>>) => RLe(handlerZoomLevel, zoomK'))]_vars

C10_Witness ==
    /\ GraphMounted
    /\ zoomK = <<6, 5>>
    /\ zoomLevel = <<6, 5>>
    /\ RLt(handlerZoomLevel, One)

\* C11: whenever no drag gesture is in progress, no node of the graph is pinned (fx/fy
\* are null), whatever clock ticks and re-initialisations happened during the gesture.
C11_PinnedOnlyWhileDragging ==
    dragSubject = <<>> => \A i \in DOMAIN videoNodes : ~videoNodes[i].fx

\* C12: a click on a node of the overview makes it the selected node, changes the view
\* mode to Detail(node.id) and animates the zoom transform onto the node (focusOnNode),
\* whatever the node's coordinates are.
C12_OverviewClickSelectsAndFocuses ==
    [][\A id \in Ids(combinedNodes), hasPosition \in BOOLEAN :
          (viewMode.type = "overview" /\ NodeClick(id, hasPosition))
             => /\ selectedNode' = id
                /\ viewMode' = Detailed(id)
                /\ zoomK' = targetScale(handlerZoomLevel)]_vars

snapshotIndex(id) == CHOOSE i \in DOMAIN combinedNodes : combinedNodes[i].id = id

\* C13: the first-order sequence is in descending order of size, and nodes of equal
\* size are in the order they have in the snapshot's node list.
C13_SortedBySizeStable ==
    GraphMounted =>
      LET result == firstOrderNodes(combinedNodes, combinedEdges) IN
        \A i, j \in DOMAIN result :
            i < j => /\ result[i].size >= result[j].size
                     /\ result[i].size = result[j].size
                          => snapshotIndex(result[i].id) < snapshotIndex(result[j].id)

C13_Witness ==
    /\ GraphMounted
    /\ viewMode.type = "overview"
    /\ Len(shownNodes) = 3
    /\ shownNodes[1].size = shownNodes[2].size
    /\ shownNodes[3].size < shownNodes[2].size
    /\ snapshotIndex(shownNodes[3].id) = 1

qualifies(node) ==
    \/ ~isTargetOfSomeEdge(node.id)
    \/ node.category = "prerequisite"
    \/ node.size >= 18
isSubsetOnce(result, nodes) ==
    /\ \A i \in DOMAIN result : \E k \in DOMAIN nodes : nodes[k] = result[i]
    /\ \A i, j \in DOMAIN result : i # j => result[i].id # result[j].id

\* C14 as claimed: the first-order output is a strict subset of the snapshot's nodes:
\* every returned node is a snapshot node, returned once, and never all of them.
C14_StrictSubset ==
    GraphMounted =>
      LET result == firstOrderNodes(combinedNodes, combinedEdges) IN
        /\ isSubsetOnce(result, combinedNodes)
        /\ Len(result) < Len(combinedNodes)

\* C14 amended: every returned node is a snapshot node, returned once; the output is
\* the whole node set exactly when every node of the snapshot qualifies as first-order.
C14_SubsetPossiblyAll ==
    GraphMounted =>
      LET result == firstOrderNodes(combinedNodes, combinedEdges) IN
        /\ isSubsetOnce(result, combinedNodes)
        /\ Len(result) <= Len(combinedNodes)
        /\ Len(result) = Len(combinedNodes)
             <=> \A k \in DOMAIN combinedNodes : qualifies(combinedNodes[k])

C14_Witness ==
    /\ GraphMounted
    /\ viewMode.type = "overview"
    /\ Len(combinedNodes) = 3
    /\ Len(combinedEdges) > 0
    /\ Len(shownNodes) = Len(combinedNodes)

\* C15: applying the first-order computation to its own output, with the same edge
\* list, returns the same sequence of nodes in the same order.
C15_FirstOrderIdempotent ==
    GraphMounted =>
      LET result == firstOrderNodes(combinedNodes, combinedEdges) IN
        firstOrderNodes(result, combinedEdges) = result

C15_Witness ==
    /\ GraphMounted
    /\ viewMode.type = "overview"
    /\ Len(shownNodes) = 2
    /\ Len(combinedNodes) = 3
    /\ shownNodes[1].size = shownNodes[2].size
    /\ firstOrderNodes(shownNodes, combinedEdges) = shownNodes

bothEndsIn(e, nodes) == e.source \in Ids(nodes) /\ e.target \in Ids(nodes)

\* C16: the edges the neighborhood computation returned for the detail view of a focus
\* id are exactly the snapshot edges whose source and target are both nodes of the
\* returned neighborhood, in snapshot order.
C16_NeighborhoodEdgesExact ==
    (GraphMounted /\ viewMode.type = "detailed") =>
      shownEdges = SelectSeq(combinedEdges, LAMBDA e : bothEndsIn(e, shownNodes))

snapshotLoaded == currentView = "home" /\ ~loading /\ ~error

\* C17: when the view is a detail view on a focus id that is no node of the snapshot
\* (any id when the snapshot has no nodes), the neighborhood computation returns an
\* empty node list and an empty edge list, and the view shows no node and no edge.
C17_MissingFocusGivesEmptyView ==
    (snapshotLoaded /\ viewMode.type = "detailed"
       /\ viewMode.selectedNodeId \notin Ids(combinedNodes)) =>
      /\ getDetailedNodes(combinedNodes, edgeObjects(combinedEdges, linkedEdges),
                          viewMode.selectedNodeId)
            = [nodes |-> <<>>, edges |-> <<>>]
      /\ shownNodes = <<>>
      /\ shownEdges = <<>>

C17_Witness ==
    /\ snapshotLoaded
    /\ viewMode = Detailed(NewId(0, "b"))
    /\ Ids(combinedNodes) = {NewId(0, "a")}
    /\ Len(combinedEdges) > 0
    /\ shownNodes = <<>>
    /\ simulationRef # <<>> /\ simulationRef[1].nodes = {}

\* the detail view a click on id shows in the overview the snapshot was mounted with
mountLinked == Range(renderEdges(Overview, combinedNodes, combinedEdges, {}))
originalDetail(id) ==
    [nodes |-> renderNodes(Detailed(id), combinedNodes, combinedEdges, mountLinked),
     edges |-> renderEdges(Detailed(id), combinedNodes, combinedEdges, mountLinked)]

\* C18: on an unchanged snapshot every detail view of a focus A, also the one reached by
\* Detail(A), Back to Overview, click A, has the node set and the edge set of the
\* original Detail(A): the detail view depends on the snapshot and the focus id only.
C18_DetailViewHistoryIndependent ==
    (GraphMounted /\ viewMode.type = "detailed") =>
      /\ memoNodes = originalDetail(viewMode.selectedNodeId).nodes
      /\ memoEdges = originalDetail(viewMode.selectedNodeId).edges

\* the ids the nodes of the videos 1..v of the answer carry
knownIds(v) ==
    UNION {{processedVideos[u].nodes[i].id : i \in DOMAIN processedVideos[u].nodes} :
              u \in 1..v}
\* the edges of the answer whose source and target are both such ids
keptEdges ==
    {<<v, j>> \in (DOMAIN processedVideos) \X (1..MaxEdges) :
        /\ j \in DOMAIN processedVideos[v].edges
        /\ processedVideos[v].edges[j].source \in knownIds(v)
        /\ processedVideos[v].edges[j].target \in knownIds(v)}
answerEdges ==
    {<<v, j>> \in (DOMAIN processedVideos) \X (1..MaxEdges) :
        j \in DOMAIN processedVideos[v].edges}

\* C19: after the home page has loaded and combined the graphs, every edge of the
\* combined graph has its source and its target among the combined nodes; the edges of
\* the answer that name an id of no node are dropped, the others are kept, no error is
\* set and the graph of the remaining nodes and edges is shown.
C19_CombinedEdgesHaveBothEnds ==
    snapshotLoaded =>
      /\ \A j \in DOMAIN combinedEdges : bothEndsIn(combinedEdges[j], combinedNodes)
      /\ Len(combinedEdges) = Cardinality(keptEdges)
      /\ Len(combinedNodes) > 0 => simulationRef # <<>>

C19_Witness ==
    /\ snapshotLoaded
    /\ simulationRef # <<>>
    /\ Cardinality(answerEdges) = 2
    /\ Len(combinedEdges) = 1
    /\ \E v \in DOMAIN processedVideos : \E j \in DOMAIN processedVideos[v].edges :
          processedVideos[v].edges[j].target = DanglingId

\* C20: handling a click on a node makes it the host's selected node and sets the
\* playback time to the node's first timestamp; a node without timestamps leaves the
\* playback time as it is.
C20_NodeClickSelectsAndSeeks ==
    [][\A index \in NodeIndexes :
          KnowledgeGraphClick(index) =>
             /\ hostSelectedNode' = index
             /\ currentTime' = IF Len(videoNodes[index].timestamps) > 0
                               THEN videoNodes[index].timestamps[1]
                               ELSE currentTime]_vars

\* C21: processVideo falls back by itself: once the backend path has failed, for
\* any reason, a settled call has returned the mock path's result, and the call
\* rejects only with the mock path's own error.
C21_BackendFailureFallsBackToMock ==
    /\ (backendError # "none" /\ processVideoResult # "pending")
         => processVideoResult \in {"mock", "rejected: Failed to structure transcript"}
    /\ processVideoResult \notin {"pending", "backend", "mock"}
         => processVideoResult = "rejected: Failed to structure transcript"
    /\ processVideoResult = "backend" => backendError = "none"

C21_Witness ==
    /\ backendError = "success is false"
    /\ processVideoResult = "mock"
    /\ videoData = "processed by mock"

\* C29: every call of handleVideoUpload eventually completes: whether the
\* processor resolves or throws, eventually isProcessing is false,
\* processingProgress is null and videoData is not null.
C29_UploadEventuallyCompletes ==
    isProcessing ~> (/\ ~isProcessing
                     /\ processingProgress = <<>>
                     /\ videoData # "null")

StageRank(stage) ==
    CASE stage = "converting" -> 0
      [] stage = "transcribing" -> 1
      [] stage = "structuring" -> 2
      [] stage = "complete" -> 3

\* C30: within one processVideo call the reported stages never go backwards in
\* the order converting, transcribing, structuring, complete, and 'complete' is
\* reported at most once and as the last report.
C30_StagesNeverGoBack ==
    /\ \A i, j \in DOMAIN progressReports :
          i < j => StageRank(progressReports[i].stage) <= StageRank(progressReports[j].stage)
    /\ \A i \in DOMAIN progressReports :
          progressReports[i].stage = "complete" => i = Len(progressReports)

\* C23: focusOnNode never zooms out: whenever the scale it reads lies in [0.1, 4.0]
\* the scale it animates to is not below that scale.
C23_FocusNeverZoomsOut ==
    [][\A id \in Ids(combinedNodes) :
          (NodeClick(id, TRUE) /\ inScaleExtent(handlerZoomLevel))
            => RLe(handlerZoomLevel, zoomK')]_vars

\* C24: the transform of focusOnNode puts the target node on the screen at
\* x = width/2 and y = height/2 - 0.1 * height, for every node position and every
\* target scale in [1.2, 2.0].
C24_FocusPlacesNodeAboveCentre ==
    focusTransform # <<>> =>
        /\ applyX(focusTransform[1], RInt(focusInput.node.x)) = Rat(focusInput.width, 2)
        /\ applyY(focusTransform[1], RInt(focusInput.node.y))
             = RSub(Rat(focusInput.height, 2), Rat(focusInput.height, 10))

\* the number of combined edges after the first v videos of the answer
edgesThrough(v) == Len(fetchVideos(SubSeq(processedVideos, 1, v)).allEdges)

\* C28: in Home's combined graph every edge contributed by video i connects two
\* nodes that both carry video i's prefix, also when the edge names an id that only
\* an earlier video has; the ids of the combined nodes are pairwise different.
C28_EdgesStayInsideTheirVideo ==
    snapshotLoaded =>
      /\ \A v \in DOMAIN processedVideos :
            \A j \in (edgesThrough(v - 1) + 1)..edgesThrough(v) :
               /\ combinedEdges[j].source[1] = v - 1
               /\ combinedEdges[j].target[1] = v - 1
      /\ \A i, j \in DOMAIN combinedNodes :
            combinedNodes[i].id = combinedNodes[j].id => i = j

\* the flags of the stored nodes are those of the stored time
flagsMatchTime(nodes, time, window) ==
    \A i \in DOMAIN nodes : nodes[i].isActive = some(nodes[i].timestamps, time, window)

\* C27: on the EduGraph pages, after every handled event (clock tick, node click,
\* timeline click, concept-panel time jump) the stored isActive flag of each node
\* says whether one of its timestamps is less than 15 seconds from the stored
\* currentTime, so the flagged nodes are the player's conceptsAtTime.
C27_FlagsFollowStoredTime ==
    [][(/\ host \in {"EduGraph.tsx", "part_000"}
        /\ \/ \E time \in Times :
                 \/ handleTimeUpdate(time) \/ EduGraphHandleTimeUpdate(time)
                 \/ handleTimelineClick(time) \/ onTimeJump(time)
           \/ \E index \in NodeIndexes : handleNodeClick(index))
        => flagsMatchTime(videoNodes', currentTime', EduGraphWindow)]_vars

\* C26: there is no feedback loop between the player and its host: a value the
\* player reported itself never makes the player write the video element's time
\* (the element's time is written only when the host's currentTime is more than
\* 0.5 s away from it), and the player reports only when the element's time is more
\* than 0.1 s away from the host's current time and at least 200 ms have passed
\* since its previous report.
C26_NoFeedbackLoop ==
    [][(\E flagsChange \in BOOLEAN, delay \in 0..MaxRenderDelay :
            VideoPlayerTimeupdate(flagsChange, delay))
        => /\ videoTime' \in {videoTime, videoTime + (now' - now)}
           /\ Abs(videoTime - playerCurrentTime) > ReportThreshold
           /\ lastReportAt # <<>> => now - lastReportAt[1] >= UPDATE_INTERVAL]_vars

\* C22: a clock tick that changes activation flags changes only the isActive flags
\* and the emphasis drawn from them: the graph is not initialised again (the force
\* simulation is not torn down, re-created or restarted), and pin state and
\* selected node stay as they are.
C22_TickKeepsSimulation ==
    [][((\E time \in Times : TimeUpdate(time))
        /\ \E i \in DOMAIN videoNodes : videoNodes'[i].isActive # videoNodes[i].isActive)
       => /\ knowledgeGraph'.deps = knowledgeGraph.deps
          /\ \A i \in DOMAIN videoNodes : videoNodes'[i].fx = videoNodes[i].fx
          /\ hostSelectedNode' = hostSelectedNode]_vars

\* the edge with index e is drawn as a link in the active style
drawnActive(e) ==
    \E l \in DOMAIN knowledgeGraph.links :
        knowledgeGraph.links[l].edge = e /\ knowledgeGraph.links[l].active

\* C25: in the graph of a video page an edge is drawn active exactly when its
\* source node or its target node is active now.
C25_EdgeActiveIffEndActive ==
    host \in Hosts =>
      \A e \in DOMAIN videoEdges :
         drawnActive(e) <=> (\/ videoNodes[videoEdges[e].source].isActive
                             \/ videoNodes[videoEdges[e].target].isActive)

====
